---------------------------- MODULE Spec2Model ----------------------------
(***************************************************************************)
(* Model of the chord transposition engine of src/app.py: the pitch tables,*)
(* CHORD_REGEX, transpose_root, transpose_text, and the transposing branch *)
(* of the index() request handler with its capo update.                    *)
(*                                                                         *)
(* A Python str is modelled as a sequence of one-character strings, so     *)
(* "C#m" is <<"C", "#", "m">>.  A Python call either returns a value or    *)
(* raises; both outcomes are modelled by a record [ok, val, err].          *)
(***************************************************************************)
EXTENDS Integers, Sequences, FiniteSets

VARIABLES
    \* direct calls of transpose_root and of the capo computation
    root, steps, old_capo, pc, ret, back, new_capo,
    \* direct calls of transpose_text
    text, out, rt,
    \* the page served by index(): the form values the next POST sends back
    input_text, output_text, capo, action, status

vars == <<root, steps, old_capo, pc, ret, back, new_capo,
          text, out, rt,
          input_text, output_text, capo, action, status>>

rootVars == <<root, steps, old_capo, pc, ret, back, new_capo>>
textVars == <<text, out, rt>>
pageVars == <<input_text, output_text, capo, action, status>>

----------------------------------------------------------------------------
(* Bounds of the model *)

\* steps ranges over -MaxSteps .. MaxSteps (beyond one octave either way)
MaxSteps == 13
\* a text is a concatenation of at most MaxSegs pieces of Pieces
MaxSegs == 2
\* a stored song is a concatenation of at most MaxSongSegs pieces of SongPieces
MaxSongSegs == 2

----------------------------------------------------------------------------
(* Python values *)

Return(v) == [ok |-> TRUE, val |-> v, err |-> "none"]
Raise(e) == [ok |-> FALSE, val |-> <<>>, err |-> e]
NotCalled == [ok |-> FALSE, val |-> <<>>, err |-> "not called"]

Min(a, b) == IF a < b THEN a ELSE b

\* s[:k] and s[k:] for k >= 0
Take(s, k) == SubSeq(s, 1, Min(k, Len(s)))
Drop(s, k) == SubSeq(s, k + 1, Len(s))

\* x in list
InList(x, list) == \E i \in 1..Len(list) : list[i] = x

\* list.index(x): the first position (from 0) holding x, ValueError if none
ListIndex(list, x) ==
    IF InList(x, list)
    THEN Return((CHOOSE i \in 1..Len(list) :
                    /\ list[i] = x
                    /\ \A j \in 1..(i - 1) : list[j] # x) - 1)
    ELSE Raise("ValueError")

\* list[i]: positions from 0, negative positions count from the end
ListAt(list, i) ==
    IF i >= 0 /\ i < Len(list) THEN Return(list[i + 1])
    ELSE IF i < 0 /\ i >= -Len(list) THEN Return(list[Len(list) + i + 1])
    ELSE Raise("IndexError")

----------------------------------------------------------------------------
(* Pitch tables and chord grammar *)

NOTES_SHARP ==
    << <<"C">>, <<"C", "#">>, <<"D">>, <<"D", "#">>, <<"E">>, <<"F">>,
       <<"F", "#">>, <<"G">>, <<"G", "#">>, <<"A">>, <<"A", "#">>, <<"B">> >>

NOTES_FLAT ==
    << <<"C">>, <<"D", "b">>, <<"D">>, <<"E", "b">>, <<"E">>, <<"F">>,
       <<"G", "b">>, <<"G">>, <<"A", "b">>, <<"A">>, <<"B", "b">>, <<"B">> >>

\* CHORD_REGEX, piece by piece: [A-G]
RegexLetters == {"A", "B", "C", "D", "E", "F", "G"}
\* [#b]
RegexAccidentals == {"#", "b"}
\* (?:m|maj7|m7|sus4|sus2|dim|aug|7), in the order the alternatives are tried
RegexSuffixes ==
    << <<"m">>, <<"m", "a", "j", "7">>, <<"m", "7">>,
       <<"s", "u", "s", "4">>, <<"s", "u", "s", "2">>,
       <<"d", "i", "m">>, <<"a", "u", "g">>, <<"7">> >>

----------------------------------------------------------------------------
(* transpose_root *)

\* a remainder with the sign of the dividend, as C's % gives
new_idx_truncating(idx, n) ==
    IF idx + n >= 0 THEN (idx + n) % 12 ELSE -((-(idx + n)) % 12)

\* line 33: new_idx = (idx + steps) % 12 ; Python's % takes the divisor's
\* sign, so the result is in 0..11
new_idx(idx, n) == (idx + n) % 12

\* lines 21-26: the split of the argument into base and suffix
split(r) ==
    IF Len(r) > 1 /\ r[2] \in {"#", "b"}
    THEN [base |-> Take(r, 2), suffix |-> Drop(r, 2)]
    ELSE [base |-> Take(r, 1), suffix |-> Drop(r, 1)]

\* lines 28-31: the index of base, in NOTES_SHARP if there, else in NOTES_FLAT
lookup(base) ==
    IF InList(base, NOTES_SHARP)
    THEN ListIndex(NOTES_SHARP, base)
    ELSE ListIndex(NOTES_FLAT, base)

\* a rendering from the flat table
render_flat(i, suffix) ==
    LET nb == ListAt(NOTES_FLAT, i)
    IN  IF nb.ok THEN Return(nb.val \o suffix) ELSE nb

\* lines 34-35: the rendering of the new index, followed by the suffix
render(i, suffix) ==
    LET nb == ListAt(NOTES_SHARP, i)
    IN  IF nb.ok THEN Return(nb.val \o suffix) ELSE nb

transpose_root(r, n) ==
    LET s == split(r)
        idx == lookup(s.base)
    IN  IF ~idx.ok THEN idx
        ELSE render(new_idx(idx.val, n), s.suffix)

----------------------------------------------------------------------------
(* CHORD_REGEX and transpose_text *)

\* does the literal p occur in t at position i (from 1)
StartsWith(t, i, p) ==
    /\ i + Len(p) - 1 <= Len(t)
    /\ SubSeq(t, i, i + Len(p) - 1) = p

\* (?:m|maj7|...|7)?\) tried at position j: the position of the closing
\* parenthesis of the first alternative that lets the rest match, the empty
\* suffix being tried last; 0 when none does
MatchTail(t, j) ==
    LET fits(k) == /\ StartsWith(t, j, RegexSuffixes[k])
                   /\ StartsWith(t, j + Len(RegexSuffixes[k]), <<")">>)
    IN  IF \E k \in 1..Len(RegexSuffixes) : fits(k)
        THEN LET k == CHOOSE k \in 1..Len(RegexSuffixes) :
                         fits(k) /\ \A h \in 1..(k - 1) : ~fits(h)
             IN  j + Len(RegexSuffixes[k])
        ELSE IF StartsWith(t, j, <<")">>) THEN j ELSE 0

\* CHORD_REGEX tried at position i: the position of the closing parenthesis
\* of the match, 0 when there is no match at i.  [#b]? is greedy: the
\* accidental is taken first and given up only if the rest fails.
MatchEnd(t, i) ==
    IF ~(StartsWith(t, i, <<"(">>) /\ i + 1 <= Len(t) /\ t[i + 1] \in RegexLetters)
    THEN 0
    ELSE LET taken == IF i + 2 <= Len(t) /\ t[i + 2] \in RegexAccidentals
                      THEN MatchTail(t, i + 3) ELSE 0
         IN  IF taken # 0 THEN taken ELSE MatchTail(t, i + 2)

\* match.group(1) of the match at i that ends at e
Group1(t, i, e) == SubSeq(t, i + 1, e - 1)

\* a replacement that loses the parentheses
replace_chord_bare(chord, n) == transpose_root(chord, n)

\* lines 38-41: the replacement of one match
replace_chord(chord, n) ==
    LET new_chord == transpose_root(chord, n)
    IN  IF new_chord.ok THEN Return(<<"(">> \o new_chord.val \o <<")">>)
        ELSE new_chord

\* CHORD_REGEX.sub(replace_chord, text) from position i on: the matches are
\* found left to right and do not overlap, every other character is copied,
\* and an exception of replace_chord ends the call
RECURSIVE sub(_, _, _)
sub(t, i, n) ==
    IF i > Len(t) THEN Return(<<>>)
    ELSE LET e == MatchEnd(t, i)
         IN  IF e = 0
             THEN LET rest == sub(t, i + 1, n)
                  IN  IF rest.ok THEN Return(<<t[i]>> \o rest.val) ELSE rest
             ELSE LET new == replace_chord(Group1(t, i, e), n)
                  IN  IF ~new.ok THEN new
                      ELSE LET rest == sub(t, e + 1, n)
                           IN  IF rest.ok THEN Return(new.val \o rest.val)
                               ELSE rest

transpose_text(t, n) == sub(t, 1, n)

\* a capo moved with the chords instead of against them
capo_step_added(c, n) == (c + n) % 12

\* line 203: capo = (capo - steps) % 12
capo_step(c, n) == (c - n) % 12

----------------------------------------------------------------------------
(* Inputs *)

StepRange == (-MaxSteps)..MaxSteps
CapoRange == 0..11

\* every string CHORD_REGEX captures
ChordTokens ==
    { <<l>> \o a \o s :
        l \in RegexLetters,
        a \in {<<>>} \cup { <<x>> : x \in RegexAccidentals },
        s \in {<<>>} \cup { RegexSuffixes[k] : k \in 1..Len(RegexSuffixes) } }

\* arguments of transpose_root that CHORD_REGEX does not capture
OtherRoots ==
    { <<>>, <<"H">>, <<"H", "#">>, <<"c", "m">>, <<"A", "b", "b">>,
      <<"D", "m", "9">>, <<"#">> }

Roots == ChordTokens \cup OtherRoots

\* pieces of text: chords in parentheses with a root of one of the tables,
ChordPieces ==
    { <<"(", "A", "m", ")">>,
      <<"(", "B", "b", ")">>,
      <<"(", "C", "#", "m", "a", "j", "7", ")">>,
      <<"(", "E", "b", "m", "7", ")">>,
      <<"(", "G", "7", ")">>,
      <<"(", "D", "s", "u", "s", "4", ")">>,
      <<"(", "B", ")">>,
      <<"(", "F", "#", "d", "i", "m", ")">> }

\* chords the pattern matches whose root is in neither table,
UnresolvedPieces ==
    { <<"(", "C", "b", ")">>,
      <<"(", "E", "#", "m", ")">> }

\* and text the pattern does not match: a wrong letter, an unsupported
\* suffix, unbalanced parentheses, blanks, a line break, lyrics
PlainPieces ==
    { <<"(", "H", ")">>,
      <<"(", "A", "m", "9", ")">>,
      <<"(", "A", "m">>,
      <<"C", ")">>,
      <<" ">>,
      <<"\n">>,
      <<"l", "a">>,
      <<"(">>,
      <<")">> }

Pieces == ChordPieces \cup UnresolvedPieces \cup PlainPieces

RECURSIVE TextsOf(_)
TextsOf(k) ==
    IF k = 0 THEN {<<>>}
    ELSE LET shorter == TextsOf(k - 1)
         IN  shorter \cup { s \o p : s \in shorter, p \in Pieces }

\* every string CHORD_REGEX matches, alone
WrappedTokens == { <<"(">> \o c \o <<")">> : c \in ChordTokens }

Texts == TextsOf(MaxSegs) \cup WrappedTokens

\* the pieces of the stored songs
SongPieces ==
    { <<"(", "A", "m", ")">>, <<"(", "B", "b", ")">>,
      <<"(", "C", "#", "m", "a", "j", "7", ")">>,
      <<"(", "C", "b", ")">>, <<"(", "H", ")">>, <<"l", "a">> }

RECURSIVE SongsOf(_)
SongsOf(k) ==
    IF k = 0 THEN {<<>>}
    ELSE LET shorter == SongsOf(k - 1)
         IN  shorter \cup { s \o p : s \in shorter, p \in SongPieces }

Songs == SongsOf(MaxSongSegs) \cup WrappedTokens

----------------------------------------------------------------------------
(* Specification of direct calls of transpose_root: SpecRoot *)

RootIdle ==
    /\ root = <<>> /\ steps = 0 /\ old_capo = 0 /\ pc = "idle"
    /\ ret = NotCalled /\ back = NotCalled /\ new_capo = 0

TextIdle == text = <<>> /\ out = NotCalled /\ rt = NotCalled

PageIdle ==
    /\ input_text = <<>> /\ output_text = <<>> /\ capo = 0
    /\ action = "none" /\ status = 0

InitRoot ==
    /\ root \in Roots
    /\ steps \in StepRange
    /\ old_capo \in CapoRange
    /\ pc = "start"
    /\ ret = NotCalled /\ back = NotCalled /\ new_capo = old_capo
    /\ TextIdle /\ PageIdle

\* ret = transpose_root(root, steps), and the caller's companion computation
\* new_capo = (old_capo - steps) % 12 with the same steps
CallRoot ==
    /\ pc = "start"
    /\ ret' = transpose_root(root, steps)
    /\ new_capo' = capo_step(old_capo, steps)
    /\ pc' = "called"
    /\ UNCHANGED <<root, steps, old_capo, back, textVars, pageVars>>

\* back = transpose_root(ret, -steps), when the first call returned
CallRootBack ==
    /\ pc = "called" /\ ret.ok
    /\ back' = transpose_root(ret.val, -steps)
    /\ pc' = "done"
    /\ UNCHANGED <<root, steps, old_capo, ret, new_capo, textVars, pageVars>>

NextRoot == CallRoot \/ CallRootBack

SpecRoot == InitRoot /\ [][NextRoot]_vars

----------------------------------------------------------------------------
(* Specification of direct calls of transpose_text: SpecText *)

InitText ==
    /\ text \in Texts
    /\ steps \in StepRange
    /\ pc = "start"
    /\ out = NotCalled /\ rt = NotCalled
    /\ root = <<>> /\ old_capo = 0
    /\ ret = NotCalled /\ back = NotCalled /\ new_capo = 0
    /\ PageIdle

CallText ==
    /\ pc = "start"
    /\ out' = transpose_text(text, steps)
    /\ pc' = "called"
    /\ UNCHANGED <<root, steps, old_capo, ret, back, new_capo, text, rt, pageVars>>

CallTextBack ==
    /\ pc = "called" /\ out.ok
    /\ rt' = transpose_text(out.val, -steps)
    /\ pc' = "done"
    /\ UNCHANGED <<root, steps, old_capo, ret, back, new_capo, text, out, pageVars>>

NextText == CallText \/ CallTextBack

SpecText == InitText /\ [][NextText]_vars

----------------------------------------------------------------------------
(* Specification of the page served by index(): Spec *)

\* a GET with the song_id of a stored song: lines 153-156 and 172-174
Init ==
    /\ input_text \in Songs
    /\ output_text = <<>>
    /\ capo \in CapoRange
    /\ action = "none"
    /\ status = 200
    /\ RootIdle /\ TextIdle

\* lines 176-204: a POST of the page's form whose action gives n steps.  An
\* exception of transpose_text leaves the handler before anything is
\* rendered: the answer is a server error and the form stays as it was.
Post(a, n) ==
    LET result == transpose_text(input_text, n)
    IN  /\ action' = a
        /\ IF result.ok
           THEN /\ output_text' = result.val
                /\ capo' = capo_step(capo, n)
                /\ input_text' = result.val
                /\ status' = 200
           ELSE /\ status' = 500
                /\ UNCHANGED <<input_text, output_text, capo>>
        /\ UNCHANGED <<rootVars, textVars>>

\* lines 183-184
PostUp == Post("up", 1)

\* lines 185-186
PostDown == Post("down", -1)

\* lines 199-200: any action the handler does not name
PostOther == Post("other", 0)

\* lines 197-198: the redirect to the empty page
PostNew ==
    /\ action' = "new"
    /\ input_text' = <<>> /\ output_text' = <<>> /\ capo' = 0
    /\ status' = 200
    /\ UNCHANGED <<rootVars, textVars>>

Next == PostUp \/ PostDown \/ PostOther \/ PostNew

Spec == Init /\ [][Next]_vars

----------------------------------------------------------------------------
(* Vocabulary of the properties: the chord grammar and the pitch classes   *)
(* as the specification defines them, independent of transpose_root.       *)

\* the root of a chord token: its letter and the accidental after it, if any
GrammarRoot(c) ==
    IF Len(c) > 1 /\ c[2] \in {"#", "b"} THEN SubSeq(c, 1, 2) ELSE SubSeq(c, 1, 1)

\* the quality suffix of a chord token: what follows its root
GrammarSuffix(c) == SubSeq(c, Len(GrammarRoot(c)) + 1, Len(c))

\* pitch class of a natural letter, C = 0
LetterPitch(l) ==
    CASE l = "C" -> 0 [] l = "D" -> 2 [] l = "E" -> 4 [] l = "F" -> 5
      [] l = "G" -> 7 [] l = "A" -> 9 [] l = "B" -> 11

\* pitch class 0..11 of a chord token: a sharp raises, a flat lowers
PitchClass(c) ==
    LET r == GrammarRoot(c)
    IN  IF Len(r) = 1 THEN LetterPitch(r[1])
        ELSE IF r[2] = "#" THEN (LetterPitch(r[1]) + 1) % 12
        ELSE (LetterPitch(r[1]) - 1) % 12

SharpNames == { NOTES_SHARP[i] : i \in 1..Len(NOTES_SHARP) }
FlatNames == { NOTES_FLAT[i] : i \in 1..Len(NOTES_FLAT) }

\* the sharp-table name of pitch class p
SharpName(p) == NOTES_SHARP[p + 1]

\* a token whose root one of the two tables holds
Resolvable(c) == GrammarRoot(c) \in SharpNames \cup FlatNames

\* the chord tokens of a text, in order, from position i on
RECURSIVE ChordsFrom(_, _)
ChordsFrom(t, i) ==
    IF i > Len(t) THEN <<>>
    ELSE LET e == MatchEnd(t, i)
         IN  IF e = 0 THEN ChordsFrom(t, i + 1)
             ELSE <<Group1(t, i, e)>> \o ChordsFrom(t, e + 1)

Chords(t) == ChordsFrom(t, 1)

\* the pitch class at every chord position of a text
Pitches(t) == [i \in 1..Len(Chords(t)) |-> PitchClass(Chords(t)[i])]

\* a text with every chord span replaced by one mark: what is not a chord
RECURSIVE FrameFrom(_, _)
FrameFrom(t, i) ==
    IF i > Len(t) THEN <<>>
    ELSE LET e == MatchEnd(t, i)
         IN  IF e = 0 THEN <<t[i]>> \o FrameFrom(t, i + 1)
             ELSE <<"<chord>">> \o FrameFrom(t, e + 1)

Frame(t) == FrameFrom(t, 1)

Called == pc \in {"called", "done"}

----------------------------------------------------------------------------
(* C1, under SpecRoot *)

\* C1: for every chord token c the grammar matches and every n,
\* transpose_root(transpose_root(c, n), -n) exists and has the pitch class
\* and the suffix of c.
C1_RoundTrip ==
    (root \in ChordTokens /\ Called) =>
        /\ ret.ok
        /\ pc = "done" =>
            /\ back.ok
            /\ PitchClass(back.val) = PitchClass(root)
            /\ GrammarSuffix(back.val) = GrammarSuffix(root)

\* The round trip of the tokens whose root is in a table: it is only the
\* tokens of neither table that break C1.
RoundTripOfResolvable ==
    (root \in ChordTokens /\ Resolvable(root) /\ Called) =>
        /\ ret.ok
        /\ pc = "done" =>
            /\ back.ok
            /\ PitchClass(back.val) = PitchClass(root)
            /\ GrammarSuffix(back.val) = GrammarSuffix(root)

\* The same for texts, under SpecText: when both calls return, the pitch
\* class at every chord position is that of the text.
RoundTripOfText ==
    (pc = "done" /\ rt.ok) => Pitches(rt.val) = Pitches(text)

----------------------------------------------------------------------------
(* C2, under SpecText *)

\* C2: every token CHORD_REGEX matches has a root of the sharp or the flat
\* table, so that transpose_text fails on no text.
C2_NeverFails == Called => out.ok

\* transpose_text fails exactly on the texts with a chord of neither table
FailsOnUnresolvedOnly ==
    Called => (out.ok <=> \A i \in 1..Len(Chords(text)) : Resolvable(Chords(text)[i]))

----------------------------------------------------------------------------
(* C3, under Spec *)

\* chord pitch - capo, at every chord position
PitchMinusCapo(t, c) == [i \in 1..Len(Chords(t)) |-> (Pitches(t)[i] - c) % 12]

\* chord pitch + capo, at every chord position
PitchPlusCapo(t, c) == [i \in 1..Len(Chords(t)) |-> (Pitches(t)[i] + c) % 12]

Transposed == action' \in {"up", "down"} /\ status' = 200

\* C3 as stated: an up or down that transposes the text and updates the
\* capo leaves (chord pitch - capo) mod 12 as it was at every chord.
C3_PitchMinusCapoKept ==
    [][Transposed => PitchMinusCapo(input_text', capo') = PitchMinusCapo(input_text, capo)]_vars

\* C3 as amended: an up or down that transposes the text and updates the
\* capo leaves (chord pitch + capo) mod 12 as it was at every chord.
C3_PitchPlusCapoKept ==
    [][Transposed => PitchPlusCapo(input_text', capo') = PitchPlusCapo(input_text, capo)]_vars

\* an up that took the capo from 0 round to 11 under a text of two chords
C3_Witness ==
    /\ action = "up" /\ status = 200 /\ capo = 11
    /\ Len(Chords(input_text)) = 2

----------------------------------------------------------------------------
(* C4, under SpecRoot *)

Tok(c) == Return(c)

\* C4: for every steps the new pitch index (index + steps) mod 12 and the
\* new capo (old_capo - steps) mod 12 are in 0..11 and congruent to the sum
\* and the difference; C+1 = C#, C-1 = B, B+1 = C, capo 0 with steps 1 gives
\* 11, capo 3 with steps -2 gives 5.
C4_FloorMod ==
    Called =>
        /\ new_capo \in 0..11
        /\ \E k \in (-MaxSteps)..MaxSteps : new_capo = old_capo - steps + 12 * k
        /\ (old_capo = 0 /\ steps = 1) => new_capo = 11
        /\ (old_capo = 3 /\ steps = -2) => new_capo = 5
        /\ ret.ok =>
            LET idx == lookup(split(root).base).val
            IN  /\ new_idx(idx, steps) \in 0..11
                /\ \E k \in (-MaxSteps)..MaxSteps :
                       new_idx(idx, steps) = idx + steps + 12 * k
                /\ ret.val = NOTES_SHARP[new_idx(idx, steps) + 1] \o split(root).suffix
        /\ (root = <<"C">> /\ steps = 1) => ret = Tok(<<"C", "#">>)
        /\ (root = <<"C">> /\ steps = -1) => ret = Tok(<<"B">>)
        /\ (root = <<"B">> /\ steps = 1) => ret = Tok(<<"C">>)

\* C down more than an octave, with a capo that wraps upwards
C4_Witness ==
    /\ Called /\ root = <<"C">> /\ steps < -12 /\ ret.ok
    /\ old_capo = 11 /\ new_capo < old_capo

----------------------------------------------------------------------------
(* C5, under SpecRoot *)

\* C5: for every resolvable chord token, zero steps render the root as the
\* sharp-table name of the token's pitch class, and for every steps the
\* rendered root is a name of the sharp table.
C5_SharpOnly ==
    (root \in ChordTokens /\ Resolvable(root) /\ Called) =>
        /\ ret.ok
        /\ \E i \in 1..Len(NOTES_SHARP) :
               ret.val = NOTES_SHARP[i] \o GrammarSuffix(root)
        /\ GrammarRoot(ret.val) \in SharpNames
        /\ steps = 0 =>
               ret.val = SharpName(PitchClass(root)) \o GrammarSuffix(root)

\* Bbm7 by zero steps came back as A#m7
C5_Witness ==
    /\ Called /\ root = <<"B", "b", "m", "7">> /\ steps = 0
    /\ ret = Tok(<<"A", "#", "m", "7">>)

----------------------------------------------------------------------------
(* C6, under SpecText *)

C6_WitnessFlat ==
    /\ Called /\ steps = 0
    /\ text = <<"(", "E", "b", "s", "u", "s", "4", ")">>
    /\ out = Return(<<"(", "D", "#", "s", "u", "s", "4", ")">>)

----------------------------------------------------------------------------
(* C7, under SpecText *)

\* C7: for every text and every steps transpose_text gives an output in
\* which everything outside the chord spans is as in the input, in the same
\* order; a text without a match is returned as it is.
C7_PassThrough ==
    Called =>
        /\ out.ok
        /\ Frame(out.val) = Frame(text)
        /\ Chords(text) = <<>> => out.val = text

\* What transpose_text returns, when it returns, passes the rest through.
PassThroughOfReturned ==
    (Called /\ out.ok) =>
        /\ Frame(out.val) = Frame(text)
        /\ Len(Chords(out.val)) = Len(Chords(text))
        /\ Chords(text) = <<>> => out.val = text

----------------------------------------------------------------------------
(* C8, under SpecRoot *)

\* C8: for every chord token and every steps the output of transpose_root
\* is the name of the transposed root followed by the suffix of the token.
C8_SuffixKept ==
    (root \in ChordTokens /\ Called) =>
        /\ ret = Return(SharpName((PitchClass(root) + steps) % 12)
                        \o GrammarSuffix(root))
        /\ (root = <<"D", "m", "7">> /\ steps = 2) => ret = Tok(<<"E", "m", "7">>)
        /\ (root = <<"G", "s", "u", "s", "4">> /\ steps = -3)
               => ret = Tok(<<"E", "s", "u", "s", "4">>)

\* The same of the tokens whose root is in a table.
SuffixKeptOfResolvable ==
    (root \in ChordTokens /\ Resolvable(root) /\ Called) =>
        ret = Return(SharpName((PitchClass(root) + steps) % 12)
                     \o GrammarSuffix(root))

----------------------------------------------------------------------------
(* C9, under SpecRoot *)

InNeitherTable(base) == base \notin SharpNames \cup FlatNames

\* C9: given a string whose base neither table holds, transpose_root fails
\* with the named error InvalidRootError and gives no output.
C9_NamedError ==
    (Called /\ InNeitherTable(split(root).base)) =>
        ret = Raise("InvalidRootError")

\* What it does: the ValueError of the failed list lookup, and no output.
LookupFailureIsValueError ==
    (Called /\ InNeitherTable(split(root).base)) => ret = Raise("ValueError")

----------------------------------------------------------------------------
(* C10, under SpecRoot *)

\* C10: when the second character is # or b and the two-character prefix is
\* a name of neither table, transpose_root falls back to the one-character
\* root, looks the letter up, and keeps the accidental as the start of the
\* suffix.
C10_Fallback ==
    ( /\ Called /\ Len(root) > 1 /\ root[2] \in {"#", "b"}
      /\ InNeitherTable(SubSeq(root, 1, 2))
      /\ SubSeq(root, 1, 1) \in SharpNames ) =>
        ret = Return(SharpName((LetterPitch(root[1]) + steps) % 12)
                     \o SubSeq(root, 2, Len(root)))

============================================================================
